---- MODULE Spec2Model ----
(***************************************************************************)
(* A model of sudoku_solver.py: the candidate engine (options,             *)
(* possible_digits), the board checks, the propagation step one_stage and  *)
(* the interactive solve loop fill_board, started the way main starts it.  *)
(*                                                                         *)
(* Python lists are sequences.  A 9x9 grid is a function over 0..8 of      *)
(* functions over 0..8, so that board[r][c] reads as in the source.        *)
(***************************************************************************)
EXTENDS Integers, Sequences, FiniteSets, TLC

VARIABLES
    sudoku_board,   \* the 9x9 grid; -1 is an empty cell
    possibilities,  \* the 9x9 grid of option lists / None
    pc,             \* where the session stands (see Next)
    state,          \* the state one_stage returned last (fill_board's `state`)
    loc,            \* the location one_stage returned last
    cell_options,   \* fill_board: the list offered at the prompt
    choice,         \* fill_board: <<v>> for the int v, <<>> for None
    entry_board,    \* history: the board as it was when one_stage was called
    reply,          \* history: the line the chooser typed last
    rand_N,         \* create_random_board: N, the number of cells to fill
    positions,      \* create_random_board: the coordinates not yet popped
    filled          \* create_random_board: the number of cells filled

\* the locals of create_random_board
random_vars == <<rand_N, positions, filled>>

vars == <<sudoku_board, possibilities, pc, state, loc, cell_options, choice,
          entry_board, reply, rand_N, positions, filled>>

----------------------------------------------------------------------------
(* Constants of the program *)

NOT_FINISH == "NOT_FINISH"
FINISH_SUCCESS == "FINISH_SUCCESS"
FINISH_FAILURE == "FINISH_FAILURE"

N == 9              \* range(9): rows, columns, cells of a part
BOX == 3            \* side of a square
EMPTY == -1         \* the empty cell
PLACEHOLDER == 0    \* fill_board's temporary placeholder for display

\* Python's None, for a possibilities entry and for a location.  No option
\* list and no location is ever the one-element list [0].
None == <<0>>

Idx == 0 .. (N - 1)

\* range(1, 10) as a list
range_1_10 == [i \in 1 .. 9 |-> i]

\* range(9), the numbers check_part_for_failure looks for
range_9 == 0 .. 8

----------------------------------------------------------------------------
(* Lists *)

\* x in lst
In(x, lst) == \E i \in 1 .. Len(lst) : lst[i] = x

\* lst.count(x)
Count(lst, x) == Cardinality({i \in 1 .. Len(lst) : lst[i] = x})

\* the three parts of the grid a cell belongs to, as 9-element lists
RowOf(b, r) == [j \in 1 .. N |-> b[r][j - 1]]

ColOf(b, c) == [i \in 1 .. N |-> b[i - 1][c]]

\* the square whose top-left corner is (r0, c0), row by row
SquareOf(b, r0, c0) ==
    [k \in 1 .. N |-> b[r0 + ((k - 1) \div BOX)][c0 + ((k - 1) % BOX)]]

----------------------------------------------------------------------------
(* Helper functions *)

\* Mutant: the digits stop at 8, as with range(1, 9).
option_in_part_to_8(row) ==
    SelectSeq(SubSeq(range_1_10, 1, 8), LAMBDA num : ~In(num, row))

\* Mutant: the test is turned round (num in row for num not in row).
option_in_part_present(row) == SelectSeq(range_1_10, LAMBDA num : In(num, row))

option_in_part(row) == SelectSeq(range_1_10, LAMBDA num : ~In(num, row))

options(b, l) ==
    LET r == l[1]
        c == l[2]
        opts_row == option_in_part(RowOf(b, r))
        opts_col == option_in_part(ColOf(b, c))
        r0 == BOX * (r \div BOX)
        c0 == BOX * (c \div BOX)
        opts_square == option_in_part(SquareOf(b, r0, c0))
    IN  IF b[r][c] # EMPTY
        THEN <<>>
        ELSE SelectSeq(opts_square, LAMBDA n : In(n, opts_row) /\ In(n, opts_col))

possible_digits(b) ==
    [r \in Idx |-> [c \in Idx |->
        IF b[r][c] = EMPTY THEN options(b, <<r, c>>) ELSE None]]

\* Mutant: only the first row is looked at.
check_final_board_first_row(b) == \A c \in Idx : b[0][c] # EMPTY

check_final_board(b) == \A r \in Idx : \A c \in Idx : b[r][c] # EMPTY

\* Mutant: a number that occurs once already counts (>= 1 for > 1).
check_part_counts_single(part) ==
    \E num \in range_9 : Count(part, num) >= 1 /\ num # EMPTY

check_part_for_failure(part) ==
    \E num \in range_9 : Count(part, num) > 1 /\ num # EMPTY

is_board_failure(b) ==
    \/ \E i \in Idx :
          \/ check_part_for_failure(RowOf(b, i))
          \/ check_part_for_failure(ColOf(b, i))
    \/ \E r0 \in {0, 3, 6} : \E c0 \in {0, 3, 6} :
          check_part_for_failure(SquareOf(b, r0, c0))

possible_continuation(p) ==
    \E r \in Idx : \E c \in Idx : p[r][c] # None /\ Len(p[r][c]) = 1

\* Mutant: a None entry counts as a cell without options (`not opts`).
is_out_of_options_falsy(p) ==
    \E r \in Idx : \E c \in Idx : p[r][c] = None \/ Len(p[r][c]) = 0

is_out_of_options(p) ==
    \E r \in Idx : \E c \in Idx : p[r][c] # None /\ Len(p[r][c]) = 0

\* Mutant: the scan starts from min_len = 2 (for 10), so only a list of one
\* option is ever kept.
find_least_options_from_2(p) ==
    LET Cand == {l \in Idx \X Idx :
                    p[l[1]][l[2]] # None /\ Len(p[l[1]][l[2]]) = 1}
    IN  IF Cand = {}
        THEN None
        ELSE CHOOSE l \in Cand :
                \A m \in Cand : l[1] < m[1] \/ (l[1] = m[1] /\ l[2] <= m[2])

\* Mutant: a later cell of the same length replaces the one kept (<= for <).
find_least_options_last(p) ==
    LET Cand == {l \in Idx \X Idx :
                    p[l[1]][l[2]] # None /\ Len(p[l[1]][l[2]]) > 0}
        Before(a, b) == a[1] < b[1] \/ (a[1] = b[1] /\ a[2] < b[2])
        Ln(l) == Len(p[l[1]][l[2]])
    IN  IF Cand = {}
        THEN None
        ELSE CHOOSE l \in Cand :
                \A m \in Cand : m # l =>
                    \/ Ln(l) < Ln(m)
                    \/ (Ln(l) = Ln(m) /\ Before(m, l))

\* The row-major scan keeps the first cell of the smallest positive length:
\* a later cell replaces it only when strictly shorter.
find_least_options(p) ==
    LET Cand == {l \in Idx \X Idx :
                    p[l[1]][l[2]] # None /\ Len(p[l[1]][l[2]]) > 0}
        Before(a, b) == a[1] < b[1] \/ (a[1] = b[1] /\ a[2] < b[2])
        Ln(l) == Len(p[l[1]][l[2]])
    IN  IF Cand = {}
        THEN None
        ELSE CHOOSE l \in Cand :
                \A m \in Cand : m # l =>
                    \/ Ln(l) < Ln(m)
                    \/ (Ln(l) = Ln(m) /\ Before(l, m))

----------------------------------------------------------------------------
(* The boards a session starts from *)

\* A solved grid, row by row.
SOLVED ==
    << <<1, 2, 3, 4, 5, 6, 7, 8, 9>>,
       <<4, 9, 7, 3, 8, 2, 1, 6, 5>>,
       <<8, 6, 5, 1, 7, 9, 4, 2, 3>>,
       <<7, 5, 9, 2, 4, 8, 3, 1, 6>>,
       <<2, 8, 1, 9, 6, 3, 5, 7, 4>>,
       <<6, 3, 4, 5, 1, 7, 8, 9, 2>>,
       <<9, 4, 2, 7, 3, 1, 6, 5, 8>>,
       <<3, 1, 6, 8, 2, 5, 9, 4, 7>>,
       <<5, 7, 8, 6, 9, 4, 2, 3, 1>> >>

\* The cells an input board may have empty, in a fixed order; an input board
\* empties at most MaxHoles of them.
HoleCells ==
    << <<4, 3>>, <<4, 4>>, <<8, 3>>, <<8, 4>>, <<0, 0>>, <<0, 1>>, <<4, 0>>,
       <<4, 1>>, <<4, 2>>, <<5, 0>>, <<8, 2>> >>

MaxHoles == 7

\* The sessions whose termination is checked start from the boards that
\* empty any of the first LiveCells cells of HoleCells.
LiveCells == 6

\* The cells an input board may hold a different digit in, and the digits.
PokeCells == {<<4, 0>>, <<5, 4>>}

PokeDigits == {6, 9}

\* The ways to overwrite cells of PokeCells: at most one digit per cell.
Pokes ==
    {P \in SUBSET (PokeCells \X PokeDigits) :
        \A x \in P : \A y \in P : x[1] = y[1] => x = y}

\* The solved grid with the cells of H emptied and then the cells of P
\* overwritten.
InputBoard(H, P) ==
    [r \in Idx |-> [c \in Idx |->
        IF \E x \in P : x[1] = <<r, c>>
        THEN (CHOOSE x \in P : x[1] = <<r, c>>)[2]
        ELSE IF \E k \in H : HoleCells[k] = <<r, c>>
             THEN EMPTY
             ELSE SOLVED[r + 1][c + 1]]]

\* The input boards that empty at most m of the first k cells of HoleCells.
InputBoardsOf(k, m) ==
    {InputBoard(H, P) :
        H \in {S \in SUBSET (1 .. k) : Cardinality(S) <= m},
        P \in Pokes}

InputBoards == InputBoardsOf(Len(HoleCells), MaxHoles)

LiveBoards == InputBoardsOf(LiveCells, LiveCells)

----------------------------------------------------------------------------
(* main: possibilities = possible_digits(board); fill_board(board, ...) *)

Start(boards) ==
    /\ sudoku_board \in boards
    /\ possibilities = possible_digits(sudoku_board)
    /\ pc = "fill_board"
    /\ state = NOT_FINISH
    /\ loc = None
    /\ cell_options = <<>>
    /\ choice = <<>>
    /\ entry_board = sudoku_board
    /\ reply = <<>>
    /\ rand_N = 0
    /\ positions = <<>>
    /\ filled = 0

Init == Start(InputBoards)

LiveInit == Start(LiveBoards)

----------------------------------------------------------------------------
(* fill_board: while state == NOT_FINISH: state, loc = one_stage(...) *)

CallOneStage ==
    /\ pc = "fill_board"
    /\ state = NOT_FINISH
    /\ pc' = "one_stage"
    /\ entry_board' = sudoku_board
    /\ UNCHANGED random_vars
    /\ UNCHANGED <<sudoku_board, possibilities, state, loc, cell_options, choice,
                   reply>>

\* fill_board: the loop ends, return state
Return ==
    /\ pc = "fill_board"
    /\ state # NOT_FINISH
    /\ pc' = "done"
    /\ UNCHANGED random_vars
    /\ UNCHANGED <<sudoku_board, possibilities, state, loc, cell_options, choice,
                   entry_board, reply>>

----------------------------------------------------------------------------
(* one_stage: one iteration of `while True` per step *)

StageFailure ==
    /\ pc = "one_stage"
    /\ is_board_failure(sudoku_board) \/ is_out_of_options(possibilities)
    /\ state' = FINISH_FAILURE
    /\ loc' = <<-1, -1>>
    /\ pc' = "returned"
    /\ UNCHANGED random_vars
    /\ UNCHANGED <<sudoku_board, possibilities, cell_options, choice, entry_board,
                   reply>>

StageSuccess ==
    /\ pc = "one_stage"
    /\ ~(is_board_failure(sudoku_board) \/ is_out_of_options(possibilities))
    /\ check_final_board(sudoku_board)
    /\ state' = FINISH_SUCCESS
    /\ loc' = <<10, 10>>
    /\ pc' = "returned"
    /\ UNCHANGED random_vars
    /\ UNCHANGED <<sudoku_board, possibilities, cell_options, choice, entry_board,
                   reply>>

StageNeedsChoice ==
    /\ pc = "one_stage"
    /\ ~(is_board_failure(sudoku_board) \/ is_out_of_options(possibilities))
    /\ ~check_final_board(sudoku_board)
    /\ ~possible_continuation(possibilities)
    /\ state' = NOT_FINISH
    /\ loc' = find_least_options(possibilities)
    /\ pc' = "returned"
    /\ UNCHANGED random_vars
    /\ UNCHANGED <<sudoku_board, possibilities, cell_options, choice, entry_board,
                   reply>>

\* the cells the fill loop assigns: those with a single candidate
Singles(p) == {l \in Idx \X Idx : p[l[1]][l[2]] # None /\ Len(p[l[1]][l[2]]) = 1}

\* Mutant: the filled cells keep their entry of the map (the assignment
\* possibilities[r][c] = None is missing).
StageFill_keeps_map ==
    /\ pc = "one_stage"
    /\ ~(is_board_failure(sudoku_board) \/ is_out_of_options(possibilities))
    /\ ~check_final_board(sudoku_board)
    /\ possible_continuation(possibilities)
    /\ sudoku_board' =
            [r \in Idx |-> [c \in Idx |->
                IF <<r, c>> \in Singles(possibilities)
                THEN possibilities[r][c][1]
                ELSE sudoku_board[r][c]]]
    /\ UNCHANGED random_vars
    /\ UNCHANGED <<possibilities, state, loc, pc, cell_options, choice,
                   entry_board, reply>>

\* Mutant: the pass stops at the first cell it assigns (a break after the
\* assignment).
StageFill_first_only ==
    /\ pc = "one_stage"
    /\ ~(is_board_failure(sudoku_board) \/ is_out_of_options(possibilities))
    /\ ~check_final_board(sudoku_board)
    /\ possible_continuation(possibilities)
    /\ LET first == CHOOSE l \in Singles(possibilities) :
                        \A m \in Singles(possibilities) :
                            l[1] < m[1] \/ (l[1] = m[1] /\ l[2] <= m[2])
       IN  /\ sudoku_board' =
                [sudoku_board EXCEPT ![first[1]][first[2]] =
                    possibilities[first[1]][first[2]][1]]
           /\ possibilities' = [possibilities EXCEPT ![first[1]][first[2]] = None]
    /\ UNCHANGED random_vars
    /\ UNCHANGED <<state, loc, pc, cell_options, choice, entry_board, reply>>

\* Mutant: the assignment swaps the indices (sudoku_board[c][r] = ...).
StageFill_transposed ==
    /\ pc = "one_stage"
    /\ ~(is_board_failure(sudoku_board) \/ is_out_of_options(possibilities))
    /\ ~check_final_board(sudoku_board)
    /\ possible_continuation(possibilities)
    /\ sudoku_board' =
            [r \in Idx |-> [c \in Idx |->
                IF <<c, r>> \in Singles(possibilities)
                THEN possibilities[c][r][1]
                ELSE sudoku_board[r][c]]]
    /\ possibilities' =
            [r \in Idx |-> [c \in Idx |->
                IF <<r, c>> \in Singles(possibilities)
                THEN None
                ELSE possibilities[r][c]]]
    /\ UNCHANGED random_vars
    /\ UNCHANGED <<state, loc, pc, cell_options, choice, entry_board, reply>>

\* Fill any cell with a single candidate.  Every assignment reads the map as
\* it was at the top of the pass (the map is not recomputed in between), so
\* the row-major order of the writes does not show in the result.
StageFill ==
    /\ pc = "one_stage"
    /\ ~(is_board_failure(sudoku_board) \/ is_out_of_options(possibilities))
    /\ ~check_final_board(sudoku_board)
    /\ possible_continuation(possibilities)
    /\ LET updated == Singles(possibilities) # {}
       IN  /\ sudoku_board' =
                [r \in Idx |-> [c \in Idx |->
                    IF <<r, c>> \in Singles(possibilities)
                    THEN possibilities[r][c][1]
                    ELSE sudoku_board[r][c]]]
           /\ possibilities' =
                [r \in Idx |-> [c \in Idx |->
                    IF <<r, c>> \in Singles(possibilities)
                    THEN None
                    ELSE possibilities[r][c]]]
           /\ IF ~updated
              THEN /\ state' = NOT_FINISH
                   /\ loc' = find_least_options(possibilities')
                   /\ pc' = "returned"
              ELSE UNCHANGED <<state, loc, pc>>
    /\ UNCHANGED random_vars
    /\ UNCHANGED <<cell_options, choice, entry_board, reply>>

----------------------------------------------------------------------------
(* fill_board: after one_stage returns *)

\* if state == NOT_FINISH and loc: take the cell's entry of the map as the
\* list to offer, write the placeholder, choice = None
Prompt ==
    /\ pc = "returned"
    /\ state = NOT_FINISH /\ loc # None
    /\ cell_options' = possibilities[loc[1]][loc[2]]
    /\ sudoku_board' = [sudoku_board EXCEPT ![loc[1]][loc[2]] = PLACEHOLDER]
    /\ choice' = <<>>
    /\ pc' = "prompt"
    /\ UNCHANGED random_vars
    /\ UNCHANGED <<possibilities, state, loc, entry_board, reply>>

\* otherwise the body is skipped and the loop condition is tested again
SkipPrompt ==
    /\ pc = "returned"
    /\ ~(state = NOT_FINISH /\ loc # None)
    /\ pc' = "fill_board"
    /\ UNCHANGED random_vars
    /\ UNCHANGED <<sudoku_board, possibilities, state, loc, cell_options, choice,
                   entry_board, reply>>

----------------------------------------------------------------------------
(* The chooser's replies: lines of text, as lists of characters *)

DIGIT_CHARS == <<"0", "1", "2", "3", "4", "5", "6", "7", "8", "9">>

IsDigit(ch) == \E i \in 1 .. 10 : DIGIT_CHARS[i] = ch

DigitValue(ch) == (CHOOSE i \in 1 .. 10 : DIGIT_CHARS[i] = ch) - 1

RECURSIVE LStrip(_)
LStrip(s) == IF s # <<>> /\ Head(s) = " " THEN LStrip(Tail(s)) ELSE s

RECURSIVE RStrip(_)
RStrip(s) ==
    IF s # <<>> /\ s[Len(s)] = " " THEN RStrip(SubSeq(s, 1, Len(s) - 1)) ELSE s

RECURSIVE DigitsValue(_)
DigitsValue(s) ==
    IF s = <<>> THEN 0
    ELSE 10 * DigitsValue(SubSeq(s, 1, Len(s) - 1)) + DigitValue(s[Len(s)])

\* int(text): surrounding blanks are dropped, one sign is allowed, and what is
\* left must be one or more decimal digits.  <<v>> for the value v, <<>> when
\* int raises ValueError.
int(text) ==
    LET t == RStrip(LStrip(text))
        signed == t # <<>> /\ Head(t) \in {"-", "+"}
        body == IF signed THEN Tail(t) ELSE t
    IN  IF body = <<>> \/ \E i \in 1 .. Len(body) : ~IsDigit(body[i])
        THEN <<>>
        ELSE IF signed /\ Head(t) = "-"
             THEN <<0 - DigitsValue(body)>>
             ELSE <<DigitsValue(body)>>

\* The lines the chooser may type: every single digit, and lines that are
\* empty, not a number, out of range, signed, padded or zero-led.
Replies ==
    {<<DIGIT_CHARS[i]>> : i \in 1 .. 10}
        \cup {<<>>, <<"x">>, <<"1", "0">>, <<"-", "1">>, <<" ", "5">>,
              <<"0", "7">>, <<"2", ".", "0">>}

\* int(text) for every line the chooser may type
Parsed == [text \in Replies |-> int(text)]

\* Mutant: any reply that parses as an int ends the loop.
Chosen_any_int(ch, opts) == ch # <<>>

\* choice in cell_options
Chosen(ch, opts) == ch # <<>> /\ In(ch[1], opts)

\* One turn of `while choice not in cell_options` whose reply does not end
\* the loop: int raises (choice keeps its value) or the value is not offered.
ReplyRejected(text) ==
    /\ pc = "prompt"
    /\ reply' = text
    /\ LET new == IF Parsed[text] = <<>> THEN choice ELSE Parsed[text]
       IN  /\ ~Chosen(new, cell_options)
           /\ choice' = new
    /\ UNCHANGED random_vars
    /\ UNCHANGED <<sudoku_board, possibilities, pc, state, loc, cell_options,
                   entry_board>>

\* Mutant: the map is not computed again after the write (line 187 missing).
ReplyAccepted_keeps_map(text) ==
    /\ pc = "prompt"
    /\ reply' = text
    /\ pc' = "fill_board"
    /\ LET new == IF Parsed[text] = <<>> THEN choice ELSE Parsed[text]
       IN  /\ Chosen(new, cell_options)
           /\ choice' = new
           /\ sudoku_board' = [sudoku_board EXCEPT ![loc[1]][loc[2]] = new[1]]
    /\ UNCHANGED random_vars
    /\ UNCHANGED <<possibilities, state, loc, cell_options, entry_board>>

\* The reply that ends the loop: the choice is written and the whole map is
\* computed again.
ReplyAccepted(text) ==
    /\ pc = "prompt"
    /\ reply' = text
    /\ pc' = "fill_board"
    /\ LET new == IF Parsed[text] = <<>> THEN choice ELSE Parsed[text]
       IN  /\ Chosen(new, cell_options)
           /\ choice' = new
           /\ sudoku_board' = [sudoku_board EXCEPT ![loc[1]][loc[2]] = new[1]]
           /\ possibilities' = possible_digits(sudoku_board')
    /\ UNCHANGED random_vars
    /\ UNCHANGED <<state, loc, cell_options, entry_board>>

----------------------------------------------------------------------------

Next ==
    \/ CallOneStage
    \/ StageFailure
    \/ StageSuccess
    \/ StageNeedsChoice
    \/ StageFill
    \/ Prompt
    \/ SkipPrompt
    \/ \E text \in Replies : ReplyRejected(text)
    \/ \E text \in Replies : ReplyAccepted(text)
    \/ Return

Spec == Init /\ [][Next]_vars

\* The program's own steps are always taken (it is one sequential thread), and
\* the chooser eventually types a line that is accepted.
Program ==
    \/ CallOneStage
    \/ StageFailure
    \/ StageSuccess
    \/ StageNeedsChoice
    \/ StageFill
    \/ Prompt
    \/ SkipPrompt
    \/ Return

LiveSpec ==
    /\ LiveInit
    /\ [][Next]_vars
    /\ WF_vars(Program)
    /\ WF_vars(\E text \in Replies : ReplyAccepted(text))

----------------------------------------------------------------------------
(* One assignment to a cell, sudoku_board[r][c] = d, followed by the         *)
(* computation of the map: what options gives before and after any write.   *)

WriteCell(p, d) ==
    /\ pc = "fill_board"
    /\ sudoku_board[p[1]][p[2]] = EMPTY
    /\ entry_board' = sudoku_board
    /\ sudoku_board' = [sudoku_board EXCEPT ![p[1]][p[2]] = d]
    /\ possibilities' = possible_digits(sudoku_board')
    /\ pc' = "written"
    /\ UNCHANGED random_vars
    /\ UNCHANGED <<state, loc, cell_options, choice, reply>>

WriteNext == \E p \in Idx \X Idx : \E d \in 1 .. 9 : WriteCell(p, d)

WriteSpec == LiveInit /\ [][WriteNext]_vars

----------------------------------------------------------------------------
(* One call of one_stage with the fresh map, on the input boards of a       *)
(* session, on the boards with a single empty cell and on the empty board.  *)

EmptyBoard == [r \in Idx |-> [c \in Idx |-> EMPTY]]

\* the solved grid with one cell emptied
OneHoleBoards ==
    {[r \in Idx |-> [c \in Idx |->
        IF <<r, c>> = l THEN EMPTY ELSE SOLVED[r + 1][c + 1]]] : l \in Idx \X Idx}

\* the solved grid without its 1s and 2s and without the 3s of row 0 and
\* column 0: (0,0) has three candidates, the next open cell has two
BranchBoard ==
    [r \in Idx |-> [c \in Idx |->
        IF SOLVED[r + 1][c + 1] \in {1, 2} \/ <<r, c>> \in {<<0, 2>>, <<7, 0>>}
        THEN EMPTY
        ELSE SOLVED[r + 1][c + 1]]]

StageBoards == InputBoards \cup OneHoleBoards \cup {EmptyBoard, BranchBoard}

StageInit == Start(StageBoards)

StageNext ==
    \/ CallOneStage
    \/ StageFailure
    \/ StageSuccess
    \/ StageNeedsChoice
    \/ StageFill

StageSpec == StageInit /\ [][StageNext]_vars

----------------------------------------------------------------------------
(* create_random_board: one iteration of `while filled < N and positions`   *)
(* per step.  random.randrange(len(positions)) and random.choice(opts) are  *)
(* any of their outcomes; the outcomes tried are the two ends of the list.  *)

\* random.randrange(10, 20)
RandomCounts == 10 .. 19

\* the outcomes of random.randrange(n) that are tried
RandomIndexes(n) == {0, n - 1}

\* the outcomes of random.choice(opts) that are tried
RandomChoices(opts) == {opts[1], opts[Len(opts)]}

\* [(r, c) for r in range(9) for c in range(9)]
AllPositions == [k \in 1 .. (N * N) |-> <<(k - 1) \div N, (k - 1) % N>>]

\* lst after lst.pop(idx)
Pop(lst, idx) == SubSeq(lst, 1, idx) \o SubSeq(lst, idx + 2, Len(lst))

\* The boards create_random_board is given: the solved grid with every cell
\* of HoleCells emptied, as it is and with both cells of PokeCells set to 6.
RandomBoards ==
    {InputBoard(1 .. Len(HoleCells), P) :
        P \in {{}, {<<l, 6>> : l \in PokeCells}}}

\* the map is not computed yet
NoMap == [r \in Idx |-> [c \in Idx |-> None]]

RandomInit ==
    /\ sudoku_board \in RandomBoards
    /\ rand_N \in RandomCounts
    /\ positions = AllPositions
    /\ filled = 0
    /\ pc = "create_random_board"
    /\ possibilities = NoMap
    /\ state = NOT_FINISH
    /\ loc = None
    /\ cell_options = <<>>
    /\ choice = <<>>
    /\ entry_board = sudoku_board
    /\ reply = <<>>

\* Mutant: the loop runs once more (filled <= N for filled < N).
RandomLoops_once_more == filled <= rand_N /\ positions # <<>>

\* while filled < N and positions
RandomLoops == filled < rand_N /\ positions # <<>>

\* the popped cell is filled, or is empty and has no option: nothing is written
RandomSkip(idx) ==
    /\ pc = "create_random_board"
    /\ RandomLoops
    /\ LET l == positions[idx + 1]
       IN  \/ sudoku_board[l[1]][l[2]] # EMPTY
           \/ options(sudoku_board, l) = <<>>
    /\ positions' = Pop(positions, idx)
    /\ UNCHANGED <<sudoku_board, possibilities, pc, state, loc, cell_options,
                   choice, entry_board, reply, rand_N, filled>>

\* the popped cell is empty and has options: one of them is written
RandomFill(idx) ==
    /\ pc = "create_random_board"
    /\ RandomLoops
    /\ LET l == positions[idx + 1]
           opts == options(sudoku_board, l)
       IN  /\ sudoku_board[l[1]][l[2]] = EMPTY
           /\ opts # <<>>
           /\ \E d \in RandomChoices(opts) :
                 sudoku_board' = [sudoku_board EXCEPT ![l[1]][l[2]] = d]
    /\ positions' = Pop(positions, idx)
    /\ filled' = filled + 1
    /\ UNCHANGED <<possibilities, pc, state, loc, cell_options, choice,
                   entry_board, reply, rand_N>>

\* the loop ends and create_random_board returns
RandomReturn ==
    /\ pc = "create_random_board"
    /\ ~RandomLoops
    /\ pc' = "random_done"
    /\ UNCHANGED <<sudoku_board, possibilities, state, loc, cell_options, choice,
                   entry_board, reply, rand_N, positions, filled>>

RandomNext ==
    \/ \E idx \in RandomIndexes(Len(positions)) : RandomSkip(idx)
    \/ \E idx \in RandomIndexes(Len(positions)) : RandomFill(idx)
    \/ RandomReturn

RandomSpec == RandomInit /\ [][RandomNext]_vars

----------------------------------------------------------------------------
(* The rules of Sudoku, stated on cells and not through the program's      *)
(* helpers: what the claims are measured against.                          *)

Cells == Idx \X Idx

Digits == 1 .. 9

\* the other cells of l's row, column and box
PeersOf ==
    [l \in Cells |->
        {q \in Cells :
            /\ q # l
            /\ \/ q[1] = l[1]
               \/ q[2] = l[2]
               \/ (q[1] \div 3 = l[1] \div 3 /\ q[2] \div 3 = l[2] \div 3)}]

At(b, l) == b[l[1]][l[2]]

\* some row, column or box holds the same digit of 1..9 twice
HasDuplicate(b) ==
    \E l \in Cells :
        At(b, l) \in Digits /\ \E q \in PeersOf[l] : At(b, q) = At(b, l)

\* the digits absent from l's row, column and box
LegalDigits(b, l) == {d \in Digits : \A q \in PeersOf[l] : At(b, q) # d}

OpenCells(b) == {l \in Cells : At(b, l) = EMPTY}

\* some open cell has no legal digit
HasDeadCell(b) == \E l \in OpenCells(b) : LegalDigits(b, l) = {}

\* some open cell has exactly one legal digit
HasForcedCell(b) == \E l \in OpenCells(b) : Cardinality(LegalDigits(b, l)) = 1

Elems(lst) == {lst[i] : i \in 1 .. Len(lst)}

Returned(st) == pc = "returned" /\ state = st

----------------------------------------------------------------------------
(* Claims *)

\* C1: whenever one_stage returns FINISH_SUCCESS, the board has no EMPTY cell
\* and no row, column or box holds a digit of 1..9 twice.
C1_SolvedIsValid ==
    Returned(FINISH_SUCCESS) =>
        OpenCells(sudoku_board) = {} /\ ~HasDuplicate(sudoku_board)

\* C2: is_board_failure(board) is true exactly when some row, column or box
\* holds a digit of 1..9 more than once.
C2_FailureIffDuplicate ==
    is_board_failure(sudoku_board) <=> HasDuplicate(sudoku_board)

\* C3: if the board one_stage is called on (with its fresh map) has a
\* duplicate digit or an open cell without a legal digit, one_stage returns
\* FINISH_FAILURE and has assigned no cell.
C3_BadBoardFailsAtOnce ==
    (pc = "returned" /\ (HasDuplicate(entry_board) \/ HasDeadCell(entry_board)))
        => (state = FINISH_FAILURE /\ sudoku_board = entry_board)

\* C4: options(board, loc) is the empty list for a filled cell, and for an
\* open cell lists exactly the digits of 1..9 that are neither in its row,
\* nor in its column, nor in its box (each once).
C4_OptionsExact ==
    \A l \in Cells :
        LET opts == options(sudoku_board, l)
        IN  IF At(sudoku_board, l) # EMPTY
            THEN opts = <<>>
            ELSE /\ Elems(opts) = LegalDigits(sudoku_board, l)
                 /\ Len(opts) = Cardinality(LegalDigits(sudoku_board, l))

C4_Witness ==
    /\ \E l \in OpenCells(sudoku_board) :
          Len(options(sudoku_board, l)) = 2 /\ PeersOf[l] \cap OpenCells(sudoku_board) # {}
    /\ \E l \in Cells : At(sudoku_board, l) \in Digits

\* C5: when one_stage returns NOT_FINISH, no open cell of the board as it
\* stands has exactly one legal digit.
C5_NoForcedCellLeft ==
    Returned(NOT_FINISH) => ~HasForcedCell(sudoku_board)

\* C6: at every prompt, the offered list is exactly the set of digits absent
\* from the branch cell's row, column and box on the board at that moment.
C6_OfferedIsCurrent ==
    pc = "prompt" => Elems(cell_options) = LegalDigits(sudoku_board, loc)

\* C7: one_stage never returns NOT_FINISH for a board on which some open
\* cell has no legal digit.
C7_NoDeadCellHandedOver ==
    Returned(NOT_FINISH) => ~HasDeadCell(sudoku_board)

\* C8: whenever one_stage (called with a fresh map) returns FINISH_FAILURE,
\* the board as it stands has a duplicate digit in some row, column or box,
\* or an open cell without a legal digit.
C8_FailureIsReal ==
    Returned(FINISH_FAILURE) =>
        HasDuplicate(sudoku_board) \/ HasDeadCell(sudoku_board)

\* a failure found only after the step's own assignments
C8_Witness ==
    /\ Returned(FINISH_FAILURE)
    /\ sudoku_board # entry_board
    /\ ~HasDuplicate(entry_board)

\* the line is an int that is a member of the offered list
IsOffered(text) == int(text) # <<>> /\ int(text)[1] \in Elems(cell_options)

\* C9: at the prompt, a reply that is not a member of the offered list
\* (a non-integer line included) leaves the board and the map as they were
\* and the chooser is asked again; a reply that is a member is written to the
\* branch cell as it is, and nothing else is written.
C9_InvalidReplyRejected ==
    [][pc = "prompt" =>
        IF IsOffered(reply')
        THEN /\ pc' = "fill_board"
             /\ sudoku_board' =
                    [sudoku_board EXCEPT ![loc[1]][loc[2]] = int(reply')[1]]
        ELSE /\ pc' = "prompt"
             /\ sudoku_board' = sudoku_board
             /\ possibilities' = possibilities
             /\ cell_options' = cell_options
             /\ loc' = loc]_vars

\* an out-of-range integer was typed and the chooser is being asked again
C9_Witness ==
    /\ pc = "prompt"
    /\ choice = <<10>>
    /\ At(sudoku_board, loc) = PLACEHOLDER

\* C10: fill_board eventually returns, with FINISH_SUCCESS or FINISH_FAILURE,
\* and every one_stage call returns.
C10_Terminates ==
    /\ <>(pc = "done")
    /\ [](pc = "done" => state \in {FINISH_SUCCESS, FINISH_FAILURE})
    /\ [](pc = "one_stage" => <>(pc = "returned"))

\* a session that asked the chooser and then returned
C10_Witness == pc = "done" /\ choice # <<>>

\* C11: after writing any digit of 1..9 into any open cell, the options of
\* every other open cell are a subset of what they were before the write.
C11_Monotone ==
    pc = "written" =>
        \A q \in OpenCells(sudoku_board) :
            Elems(options(sudoku_board, q)) \subseteq Elems(options(entry_board, q))

\* a write that took a digit away from another open cell
C11_Witness ==
    /\ pc = "written"
    /\ \E q \in OpenCells(sudoku_board) :
          Elems(options(sudoku_board, q)) # Elems(options(entry_board, q))

\* the open cells with exactly one legal digit
ForcedCells(b) == {l \in OpenCells(b) : Cardinality(LegalDigits(b, l)) = 1}

\* one_stage has been called and has not yet assigned a cell
AtEntry == pc = "one_stage" /\ sudoku_board = entry_board

\* C12: when one_stage is entered with the fresh map on a board without a
\* duplicate digit and without an open cell that has no legal digit, its
\* first pass assigns to every open cell that has exactly one legal digit
\* that digit, and only then are the terminal conditions tested again.
C12_AllSinglesFilled ==
    [][(/\ AtEntry
        /\ ForcedCells(sudoku_board) # {}
        /\ possibilities = possible_digits(sudoku_board)
        /\ ~HasDuplicate(sudoku_board)
        /\ ~HasDeadCell(sudoku_board))
       => /\ pc' = "one_stage"
          /\ \A l \in ForcedCells(sudoku_board) :
                At(sudoku_board', l) \in LegalDigits(sudoku_board, l)]_vars

\* a pass that assigned three or more forced cells of a sound board
C12_Witness ==
    /\ pc = "one_stage"
    /\ ~HasDuplicate(entry_board) /\ ~HasDeadCell(entry_board)
    /\ Cardinality(ForcedCells(entry_board)) >= 3
    /\ \A l \in ForcedCells(entry_board) :
          At(sudoku_board, l) \in LegalDigits(entry_board, l)

\* a comes before b, or is b, in row-major order
RowMajorLE(a, b) == a[1] < b[1] \/ (a[1] = b[1] /\ a[2] <= b[2])

\* l is the first cell in row-major order among the open cells of b with the
\* fewest legal digits
IsBranchCell(b, l) ==
    /\ l \in OpenCells(b)
    /\ \A m \in OpenCells(b) :
          LET nl == Cardinality(LegalDigits(b, l))
              nm == Cardinality(LegalDigits(b, m))
          IN  nl < nm \/ (nl = nm /\ RowMajorLE(l, m))

\* no duplicate, not complete, no open cell with no or with one legal digit
NeedsChoice(b) ==
    /\ ~HasDuplicate(b)
    /\ OpenCells(b) # {}
    /\ ~HasDeadCell(b)
    /\ ForcedCells(b) = {}

\* C13: a call of one_stage with the fresh map on a board that has no
\* duplicate, is not complete and has no open cell with no or with one legal
\* digit returns NOT_FINISH and the first cell in row-major order among the
\* open cells with the fewest legal digits, and leaves the board as it was;
\* on the empty board that is (0,0), with all nine digits as candidates.
C13_BranchCell ==
    (pc = "returned" /\ NeedsChoice(entry_board)) =>
        /\ state = NOT_FINISH
        /\ sudoku_board = entry_board
        /\ IsBranchCell(entry_board, loc)
        /\ entry_board = EmptyBoard =>
                loc = <<0, 0>> /\ possibilities[0][0] = range_1_10

\* the call returned a cell that is not the first open one: a later cell
\* has fewer legal digits
C13_Witness ==
    /\ pc = "returned" /\ NeedsChoice(entry_board)
    /\ \E m \in OpenCells(entry_board) : m # loc /\ RowMajorLE(m, loc)

\* the call on the empty board
C13_WitnessEmpty == pc = "returned" /\ entry_board = EmptyBoard

\* b has exactly one empty cell, no duplicate, and the empty cell's row,
\* column and box hold the other eight digits
OneForcedHole(b) ==
    /\ Cardinality(OpenCells(b)) = 1
    /\ ~HasDuplicate(b)
    /\ ForcedCells(b) = OpenCells(b)

\* C14: on a board with exactly one empty cell, no duplicate, and the other
\* eight digits in the empty cell's row, column and box, one call of
\* one_stage with the fresh map writes the missing digit to that cell (and
\* nothing else) and returns FINISH_SUCCESS.
C14_LastCellSolved ==
    (pc = "returned" /\ OneForcedHole(entry_board)) =>
        /\ state = FINISH_SUCCESS
        /\ \A l \in Cells :
              IF l \in OpenCells(entry_board)
              THEN At(sudoku_board, l) \in LegalDigits(entry_board, l)
              ELSE At(sudoku_board, l) = At(entry_board, l)

\* the call returned on a board whose one empty cell was outside row 0
C14_Witness ==
    /\ pc = "returned" /\ OneForcedHole(entry_board)
    /\ \E l \in OpenCells(entry_board) : l[1] > 0 /\ At(sudoku_board, l) \in Digits

\* C15: in every state of a session every cell holds EMPTY or a digit of
\* 1..9, and while the chooser is being asked the branch cell holds EMPTY.
C15_CellsEmptyOrDigit ==
    /\ \A l \in Cells :
          At(sudoku_board, l) = EMPTY \/ At(sudoku_board, l) \in Digits
    /\ pc = "prompt" => At(sudoku_board, loc) = EMPTY

\* C16: at every call of one_stage made by fill_board the map passed in is
\* possible_digits of the board as it stands: the map main computed for the
\* first call, the map computed after the accepted reply for the later ones.
C16_MapFreshAtCall ==
    (AtEntry \/ (pc = "fill_board" /\ state = NOT_FINISH)) =>
        possibilities = possible_digits(sudoku_board)

\* a call made after the chooser's digit was written
C16_Witness == AtEntry /\ choice # <<>> /\ OpenCells(sudoku_board) # {}

\* C17: possible_digits(board) is None at a cell exactly when the cell is
\* filled; is_out_of_options of that map is true exactly when some EMPTY
\* cell has no legal digit; and a call of one_stage on a complete board
\* without a duplicate digit returns FINISH_SUCCESS.
C17_NoneIffFilled ==
    /\ \A l \in Cells :
          possible_digits(sudoku_board)[l[1]][l[2]] = None
              <=> At(sudoku_board, l) # EMPTY
    /\ is_out_of_options(possible_digits(sudoku_board))
          <=> HasDeadCell(sudoku_board)
    /\ (pc = "returned" /\ OpenCells(entry_board) = {} /\ ~HasDuplicate(entry_board))
          => state = FINISH_SUCCESS

\* the call on a complete board without a duplicate has returned
C17_Witness ==
    /\ pc = "returned"
    /\ OpenCells(entry_board) = {} /\ ~HasDuplicate(entry_board)
    /\ \A l \in Cells : possibilities[l[1]][l[2]] = None

\* a board with a filled cell next to an open cell without a legal digit
C17_WitnessDead ==
    /\ HasDeadCell(sudoku_board)
    /\ is_out_of_options(possible_digits(sudoku_board))

\* the cells create_random_board has written
Written == {l \in Cells : At(sudoku_board, l) # At(entry_board, l)}

\* C18: every write of create_random_board goes to a cell that is EMPTY at
\* that time and is a digit legal for the cell on the board at that moment
\* (so no coordinate is written twice); at most N cells are filled; a board
\* without a duplicate digit is returned without one.
C18_RandomFillLegal ==
    /\ [][\A l \in Cells :
            At(sudoku_board', l) # At(sudoku_board, l) =>
                /\ At(sudoku_board, l) = EMPTY
                /\ At(sudoku_board', l) \in LegalDigits(sudoku_board, l)]_vars
    /\ [](Cardinality(Written) <= rand_N /\ filled = Cardinality(Written))
    /\ [](pc = "random_done" =>
            (HasDuplicate(sudoku_board) => HasDuplicate(entry_board)))

\* the loop ended on the count, with open cells left on the board
C18_Witness ==
    /\ pc = "random_done"
    /\ filled = rand_N
    /\ OpenCells(sudoku_board) # {}

\* the loop ended on the positions: an open cell was popped and skipped
C18_WitnessSkip ==
    /\ pc = "random_done"
    /\ 0 < filled /\ filled < rand_N
    /\ OpenCells(sudoku_board) # {}

\* C19: in a session no step changes a cell that holds a digit of 1..9:
\* every cell a step of one_stage or the write of the choice changes was
\* EMPTY on the board at the start of that one_stage call.
C19_DigitsKept ==
    [][\A l \in Cells :
          At(sudoku_board', l) # At(sudoku_board, l) =>
              /\ At(entry_board, l) = EMPTY
              /\ At(sudoku_board, l) \notin Digits]_vars

\* a session that made auto-fills and wrote a choice, next to given digits
C19_Witness ==
    /\ pc = "fill_board" /\ choice # <<>>
    /\ At(entry_board, loc) = EMPTY /\ At(sudoku_board, loc) \in Digits
    /\ \E l \in Cells : l # loc /\ At(entry_board, l) = EMPTY /\ At(sudoku_board, l) \in Digits

\* C20: whenever one_stage returns NOT_FINISH to fill_board, the location
\* is a coordinate (never None) of a cell that is EMPTY on the board and
\* whose entry of the map is a list with an option in it, so the prompt
\* follows: fill_board does not call one_stage again without asking.
C20_BranchCellReal ==
    Returned(NOT_FINISH) =>
        /\ loc # None
        /\ loc \in Cells
        /\ At(sudoku_board, loc) = EMPTY
        /\ possibilities[loc[1]][loc[2]] # None
        /\ Len(possibilities[loc[1]][loc[2]]) > 0

\* NOT_FINISH returned after the call's own assignments
C20_Witness ==
    /\ Returned(NOT_FINISH)
    /\ sudoku_board # entry_board
    /\ Cardinality(OpenCells(sudoku_board)) >= 2

====
